---- MODULE Spec2Model ----
(***************************************************************************)
(* bweather: a terminal weather dashboard (src/bweather.py).               *)
(*                                                                         *)
(* Floating point quantities are fixed-point integers in thousandths       *)
(* (80.33 degF is 80330); a multiplication rounds down to the thousandth.  *)
(* Times are whole seconds.  Strings that are only measured are kept as    *)
(* strings (Len works on them) or as their length.                         *)
(***************************************************************************)
EXTENDS Integers, Sequences, FiniteSets, TLC

VARIABLES
    pc,              \* position of main's while loop
    exit_flag,       \* module global exit_flag
    exit_lock,       \* who holds exit_lock: "free", "main" or "handler"
    hstack,          \* frames of signal_handler running on top of the loop
    signals,         \* number of SIGINTs delivered so far
    now,             \* the clock read by time.time()
    data,            \* main: the current Reading, or None
    new_data,        \* main: result of the last get_weather_data call
    last_update,     \* main: time of the last successful fetch
    last_log_time,   \* main: time of the last successful log write
    log_error_msg,   \* main: message of the last failed log write, or None
    log_file,        \* lines appended to log_config['filename']
    polls,           \* the successful fetches so far: <<time, Reading>>
    current_urls,    \* main: URLs of the last fetch (debug mode only)
    frame_index,     \* main: animation frame
    last_dimensions, \* main: terminal size seen by the previous render
    max_yx,          \* stdscr.getmaxyx() of this render
    writes,          \* the addstr calls of the last render, in order
    after_flag,      \* fetches, log writes, renders started with exit_flag set
    log_config,      \* main's log_config argument, or None
    debug,           \* main's debug argument
    weather_data,    \* get_weather_data: the provider's response
    result           \* get_weather_data: the value returned

vars == <<pc, exit_flag, exit_lock, hstack, signals, now, data, new_data,
          last_update, last_log_time, log_error_msg, log_file, polls,
          current_urls, frame_index, last_dimensions, max_yx, writes,
          after_flag, log_config, debug, weather_data, result>>

loop_vars == <<pc, exit_flag, exit_lock, hstack, signals, now, data, new_data,
               last_update, last_log_time, log_error_msg, log_file, polls,
               current_urls, after_flag, log_config, debug>>

render_vars == <<frame_index, last_dimensions, max_yx, writes>>

fetch_vars == <<weather_data, result>>

\* Python's None; an optional JSON key that is omitted (one that is present
\* is <<value>>); a local not yet assigned
None == [none |-> TRUE]
Absent == <<>>
Unbound == [unbound |-> TRUE]

(***************************************************************************)
(* Bounds of the model.                                                    *)
(***************************************************************************)
StartTime == 100
TimeStep == 30
Horizon == 120
MaxSignals == 2
MaxSpeed == 5

Min(a, b) == IF a < b THEN a ELSE b
Max(a, b) == IF a > b THEN a ELSE b

(***************************************************************************)
(* Unit conversions of get_weather_data.                                   *)
(***************************************************************************)
KelvinToF(temp_k) == ((temp_k - 273150) * 9) \div 5 + 32000

\* v * 2.23694, as 2v + 0.23694v to stay inside 32 bits
MsToMph(v) == 2 * v + (v * 23694) \div 100000

\* v * 0.0393701
MmToIn(v) == (v * 393701) \div 10000000

directions ==
    <<"N", "NNE", "NE", "ENE", "E", "ESE", "SE", "SSE",
      "S", "SSW", "SW", "WSW", "W", "WNW", "NW", "NNW">>

\* directions[int((wind_deg + 11.25) / 22.5) % 16], wind_deg in whole degrees
WindDir(wind_deg) == directions[(((wind_deg * 100 + 1125) \div 2250) % 16) + 1]

\* dict.get(key, default)
DictGet(value, default) == IF value = Absent THEN default ELSE value[1]

WindSpeed(wind) == MsToMph(wind.speed)

WindGust(wind) == MsToMph(DictGet(wind.gust, WindSpeed(wind)))

PrecipIn(w) == MmToIn(DictGet(w.rain, 0)) + MmToIn(DictGet(w.snow, 0))

\* the URLs get_weather_data appended before it returned
FetchUrls(resp) == IF resp.status = "geo_error" THEN <<"geo">> ELSE <<"geo", "weather">>

\* get_weather_data's first return value: a Reading, or None on any exception
get_weather_data(resp) ==
    IF resp.status # "ok" THEN None
    ELSE [temp_f         |-> KelvinToF(resp.temp),
          humidity       |-> resp.humidity,
          precip_in      |-> PrecipIn(resp),
          wind_dir       |-> WindDir(resp.wind.deg),
          wind_speed_mph |-> WindSpeed(resp.wind),
          wind_gust_mph  |-> WindGust(resp.wind)]

Payload(t, h, s, g, d, r, sn) ==
    [status |-> "ok", temp |-> t, humidity |-> h,
     wind |-> [speed |-> s, gust |-> g, deg |-> d], rain |-> r, snow |-> sn]

GeoError == [status |-> "geo_error"]
WeatherError == [status |-> "weather_error"]

(***************************************************************************)
(* Number formatting of the f-strings.                                     *)
(***************************************************************************)
Abs(n) == IF n < 0 THEN -n ELSE n

\* v / unit rounded to the nearest integer, ties to even
RoundHalfEven(v, unit) ==
    LET q == v \div unit
        r == v % unit
    IN  IF 2 * r < unit THEN q
        ELSE IF 2 * r > unit THEN q + 1
        ELSE IF q % 2 = 0 THEN q ELSE q + 1

RECURSIVE NumDigits(_)
NumDigits(n) == IF n < 10 THEN 1 ELSE 1 + NumDigits(n \div 10)

SignLen(v) == IF v < 0 THEN 1 ELSE 0

\* len(f"{v:.0f}")
Fmt0Len(v) == SignLen(v) + NumDigits(Abs(RoundHalfEven(v, 1000)))

\* f"{v:.1f}" in tenths, f"{v:.2f}" in hundredths
Fmt1(v) == RoundHalfEven(v, 100)
Fmt2(v) == RoundHalfEven(v, 10)

\* len(f"{v:.2f}")
Fmt2Len(v) == SignLen(v) + NumDigits(Abs(Fmt2(v)) \div 100) + 3

\* len(s[:stop])
PySliceLen(n, stop) == IF stop >= 0 THEN Min(n, stop) ELSE Max(n + stop, 0)

(***************************************************************************)
(* Inputs of main that stay fixed for the life of the process.             *)
(***************************************************************************)
zipcode == "12345"
api_key == "0123456789abcdef0123456789abcdef"
GeoLat == "40.7484"
GeoLon == "-73.9967"
LogConfig == [interval |-> 60, filename |-> "w.log", base |-> "w"]
LogErrorText == [text |-> "Log error: [Errno 13] Permission denied: 'w.log'"]

UrlLen(url) ==
    IF url = "geo"
    THEN Len("http://api.openweathermap.org/geo/1.0/zip?zip=") + Len(zipcode)
         + Len(",us&appid=") + Len(api_key)
    ELSE Len("https://api.openweathermap.org/data/2.5/weather?lat=") + Len(GeoLat)
         + Len("&lon=") + Len(GeoLon) + Len("&appid=") + Len(api_key)

(***************************************************************************)
(* Color classification of the renderer (curses color pair numbers).       *)
(***************************************************************************)
TempColor_ge90(temp_f) ==
    IF temp_f >= 90000 THEN 1
    ELSE IF temp_f >= 80000 THEN 2
    ELSE IF temp_f >= 70000 THEN 3
    ELSE IF temp_f >= 60000 THEN 4
    ELSE IF temp_f >= 50000 THEN 5
    ELSE 6

TempColor(temp_f) ==
    IF temp_f > 90000 THEN 1
    ELSE IF temp_f >= 80000 THEN 2
    ELSE IF temp_f >= 70000 THEN 3
    ELSE IF temp_f >= 60000 THEN 4
    ELSE IF temp_f >= 50000 THEN 5
    ELSE 6

HumidityColor(humidity) ==
    IF humidity < 51 THEN 7
    ELSE IF humidity < 60 THEN 8
    ELSE IF humidity < 75 THEN 9
    ELSE 10

PrecipColor(precip) ==
    IF precip = 0 THEN 6
    ELSE IF precip <= 100 THEN 5
    ELSE IF precip <= 300 THEN 8
    ELSE IF precip <= 1000 THEN 9
    ELSE 10

(***************************************************************************)
(* The renderer: the addstr calls of one pass over lines 179-304.          *)
(***************************************************************************)
original_frames ==
    << <<" ", " ", " ", "live", " ", " ", " ">>,
       <<" ", " ", "(", "live", ")", " ", " ">>,
       <<" ", "(", " ", "live", " ", ")", " ">>,
       <<"(", " ", " ", "live", " ", " ", ")">> >>

\* frames: 'live' replaced by the log file's base name when logging
Frames(cfg) ==
    IF cfg # None
    THEN [i \in 1..Len(original_frames) |->
            [j \in 1..Len(original_frames[i]) |->
                IF original_frames[i][j] = "live" THEN cfg.base
                ELSE original_frames[i][j]]]
    ELSE original_frames

Part(text, is_paren) == [text |-> text, is_paren |-> is_paren]

FlushPart(current_part, header_parts) ==
    IF current_part # "" THEN Append(header_parts, Part(current_part, FALSE))
    ELSE header_parts

\* the loop "for c in frame" that builds header_parts
RECURSIVE SplitFrame(_, _, _, _)
SplitFrame(frame, i, current_part, header_parts) ==
    IF i > Len(frame) THEN FlushPart(current_part, header_parts)
    ELSE IF frame[i] \in {"(", ")"}
    THEN SplitFrame(frame, i + 1, "",
                    Append(FlushPart(current_part, header_parts), Part(frame[i], TRUE)))
    ELSE SplitFrame(frame, i + 1, current_part \o frame[i], header_parts)

HeaderParts(frame) == SplitFrame(frame, 1, "", <<>>)

RECURSIVE PartsLen(_, _)
PartsLen(parts, i) == IF i > Len(parts) THEN 0 ELSE Len(parts[i].text) + PartsLen(parts, i + 1)

\* one stdscr.addstr(y, x, text, attr): text is kept by its length
Addstr(kind, y, x, len, attr) == [kind |-> kind, y |-> y, x |-> x, len |-> len, attr |-> attr]

RECURSIVE PartCalls(_, _, _, _)
PartCalls(parts, i, y, x_pos) ==
    IF i > Len(parts) THEN <<>>
    ELSE <<Addstr(IF parts[i].is_paren THEN "paren" ELSE "frame_text", y, x_pos,
                  Len(parts[i].text), IF parts[i].is_paren THEN 1 ELSE 0)>>
         \o PartCalls(parts, i + 1, y, x_pos + Len(parts[i].text))

HeaderCalls(frame, start_y, max_x) ==
    LET header_zip == zipcode \o " "
        header_parts == HeaderParts(frame)
        header_total_length == Len(header_zip) + PartsLen(header_parts, 1)
        start_x_header == (max_x - header_total_length) \div 2
    IN  <<Addstr("header_zip", start_y, start_x_header, Len(header_zip), 0)>>
        \o PartCalls(header_parts, 1, start_y, start_x_header + Len(header_zip))

Line1Calls(d, current_line, max_x) ==
    LET temp_len == Fmt0Len(d.temp_f) + Len("_F")
        sep_len == Len(" :: ")
        hum_len == NumDigits(d.humidity) + Len("% RH")
        start_x_line1 == (max_x - (temp_len + sep_len + hum_len)) \div 2
    IN  <<Addstr("temp", current_line + 1, start_x_line1, temp_len, TempColor(d.temp_f)),
          Addstr("separator", current_line + 1, start_x_line1 + temp_len, sep_len, 0),
          Addstr("humidity", current_line + 1, start_x_line1 + temp_len + sep_len,
                 hum_len, HumidityColor(d.humidity))>>

WindCalls(d, current_line, max_x) ==
    LET wind_len == Len("wind ") + Len(d.wind_dir) + Len(" ") + Fmt0Len(d.wind_speed_mph)
                    + Len("mph (") + Fmt0Len(d.wind_gust_mph) + Len("mph)")
    IN  <<Addstr("wind", current_line + 2, (max_x - wind_len) \div 2, wind_len, 0)>>

PrecipCalls(d, current_line, max_x) ==
    LET precip_len == Fmt2Len(d.precip_in) + Len("_/h precipitation")
    IN  <<Addstr("precip", current_line + 3, (max_x - precip_len) \div 2, precip_len,
                 PrecipColor(d.precip_in))>>

RECURSIVE UrlCalls(_, _, _, _, _)
UrlCalls(urls, i, debug_start_line, max_y, max_x) ==
    IF i > Len(urls) THEN <<>>
    ELSE (IF debug_start_line + (i - 1) < max_y
          THEN <<Addstr("url", debug_start_line + (i - 1), 0,
                        PySliceLen(Len("API 1: ") + UrlLen(urls[i]), max_x - 1), 0)>>
          ELSE <<>>)
         \o UrlCalls(urls, i + 1, debug_start_line, max_y, max_x)

DebugCalls(dbg, urls, err, current_line, max_y, max_x) ==
    (IF dbg /\ urls # <<>> THEN UrlCalls(urls, 1, current_line + 5, max_y, max_x) ELSE <<>>)
    \o (IF dbg /\ err # None /\ max_y > current_line + 4
        THEN <<Addstr("log_error", current_line + 4, 0, PySliceLen(Len(err.text), max_x - 1), 1)>>
        ELSE <<>>)

MessageCalls(max_y, max_x) ==
    <<Addstr("message", max_y \div 2, (max_x - Len("Fetching weather data...")) \div 2,
             Len("Fetching weather data..."), 0)>>

\* every addstr of one render, in program order, were none of them to raise
RenderCalls(d, fi, cfg, dbg, urls, err, max_y, max_x) ==
    LET start_y == (max_y \div 2) - 2
        frames == Frames(cfg)
        frame == frames[(fi % Len(frames)) + 1]
    IN  IF d # None
        THEN HeaderCalls(frame, start_y, max_x) \o Line1Calls(d, start_y, max_x)
             \o WindCalls(d, start_y, max_x) \o PrecipCalls(d, start_y, max_x)
             \o DebugCalls(dbg, urls, err, start_y, max_y, max_x)
        ELSE MessageCalls(max_y, max_x)

\* curses: addstr raises when the position is outside the window, or when the
\* text (wrapping at the right margin) reaches the bottom right corner
AddstrFails(w, max_y, max_x) ==
    \/ w.y < 0 \/ w.y >= max_y
    \/ w.x < 0 \/ w.x >= max_x
    \/ w.y * max_x + w.x + w.len >= max_y * max_x

RECURSIVE FirstFailure(_, _, _, _)
FirstFailure(calls, i, max_y, max_x) ==
    IF i > Len(calls) THEN 0
    ELSE IF AddstrFails(calls[i], max_y, max_x) THEN i
    ELSE FirstFailure(calls, i + 1, max_y, max_x)

\* the calls that were made: those up to and including the first that raised
Attempted(calls, max_y, max_x) ==
    LET k == FirstFailure(calls, 1, max_y, max_x)
    IN  IF k = 0 THEN calls ELSE SubSeq(calls, 1, k)

Raised(ws, yx) == FirstFailure(ws, 1, yx[1], yx[2]) # 0

\* lines 179-304 of main, for a terminal of size yx
RenderBody(yx) ==
    /\ max_yx' = yx
    /\ last_dimensions' = yx
    /\ writes' = Attempted(RenderCalls(data, frame_index, log_config, debug, current_urls,
                                       log_error_msg, yx[1], yx[2]), yx[1], yx[2])
    /\ frame_index' = IF data # None THEN (frame_index + 1) % Len(original_frames)
                      ELSE frame_index

(***************************************************************************)
(* The refresh loop of main (lines 137-177) and signal_handler.            *)
(***************************************************************************)
Keys == {-1, 27, 97, 113}
QuitKeys == {113, 27}

PayloadA == Payload(300000, 45, 5000, Absent, 90, <<2000>>, Absent)
PayloadB == Payload(280000, 80, 3000, <<6000>>, 200, Absent, <<1000>>)
LoopResponses == {GeoError, WeatherError, PayloadA, PayloadB}

TermSizes == {<<24, 80>>, <<24, 12>>}

\* line 148: the value of "if exit_flag" decides between break and the key read
ExitCheck_ignored(flag) == "getch"

ExitCheck(flag) == IF flag THEN "done" ELSE "getch"

\* lines 152-153
AfterGetch(key) == IF key \in QuitKeys THEN "done" ELSE "fetch"

\* line 156
FetchDue_ge(t, lu, d) == t - lu >= 60 \/ d = None

FetchDue(t, lu, d) == t - lu > 60 \/ d = None

\* lines 158-159
NextData_overwrite(d, nd) == nd

NextData(d, nd) == IF nd # None THEN nd ELSE d

\* lines 158-160
NextLastUpdate_always(lu, nd, t) == t

NextLastUpdate(lu, nd, t) == IF nd # None THEN t ELSE lu

\* line 167
LogDue_every_tick(t, llt, interval) == t - llt >= 0

LogDue(t, llt, interval) == t - llt >= interval

\* lines 169-173: the line written, timestamp first
LogLine(ts, d) ==
    [timestamp |-> ts, temp_f |-> Fmt1(d.temp_f), humidity |-> d.humidity,
     precip_in |-> Fmt2(d.precip_in), wind_dir |-> d.wind_dir,
     wind_speed_mph |-> Fmt1(d.wind_speed_mph), wind_gust_mph |-> Fmt1(d.wind_gust_mph)]

\* lines 174-177: last_log_time after a write that succeeded (ok) or raised
NextLastLogTime_always(llt, ok, current_time) == current_time

NextLastLogTime(llt, ok, current_time) == IF ok THEN current_time ELSE llt

\* lines 175-177
NextLogError(ok) == IF ok THEN None ELSE LogErrorText

Count(n) == Min(n + 1, 2)

Running == pc \notin {"done", "crashed"}

\* the loop runs only while no signal handler is on top of it
LoopAt(p) == pc = p /\ hstack = <<>>

InitLoop(cfg, dbg) ==
    /\ pc = "top"
    /\ exit_flag = FALSE
    /\ exit_lock = "free"
    /\ hstack = <<>>
    /\ signals = 0
    /\ now = StartTime
    /\ data = None
    /\ new_data = Unbound
    /\ last_update = 0
    /\ last_log_time = 0
    /\ log_error_msg = None
    /\ log_file = <<>>
    /\ polls = <<>>
    /\ current_urls = <<>>
    /\ after_flag = [fetch |-> 0, log |-> 0, render |-> 0]
    /\ log_config = cfg
    /\ debug = dbg

InitRender ==
    /\ frame_index = 0
    /\ last_dimensions = <<0, 0>>
    /\ max_yx = <<0, 0>>
    /\ writes = <<>>

InitFetch ==
    /\ weather_data = None
    /\ result = Unbound

Init ==
    /\ \E cfg \in {None, LogConfig}, dbg \in BOOLEAN : InitLoop(cfg, dbg)
    /\ InitRender
    /\ InitFetch

\* SIGINT arrives: signal_handler starts on top of whatever is running
Signal ==
    /\ Running
    /\ signals < MaxSignals
    /\ signals' = signals + 1
    /\ hstack' = <<"acquire">> \o hstack
    /\ UNCHANGED <<pc, exit_flag, exit_lock, now, data, new_data, last_update,
                   last_log_time, log_error_msg, log_file, polls, current_urls,
                   after_flag, log_config, debug, render_vars, fetch_vars>>

\* line 22: with exit_lock (acquire)
HandlerAcquire ==
    /\ hstack # <<>> /\ Head(hstack) = "acquire"
    /\ exit_lock = "free"
    /\ exit_lock' = "handler"
    /\ hstack' = <<"set">> \o Tail(hstack)
    /\ UNCHANGED <<pc, exit_flag, signals, now, data, new_data, last_update,
                   last_log_time, log_error_msg, log_file, polls, current_urls,
                   after_flag, log_config, debug, render_vars, fetch_vars>>

\* line 23
HandlerSet ==
    /\ hstack # <<>> /\ Head(hstack) = "set"
    /\ exit_flag' = TRUE
    /\ hstack' = <<"release">> \o Tail(hstack)
    /\ UNCHANGED <<pc, exit_lock, signals, now, data, new_data, last_update,
                   last_log_time, log_error_msg, log_file, polls, current_urls,
                   after_flag, log_config, debug, render_vars, fetch_vars>>

\* line 22: with exit_lock (release), and return
HandlerRelease ==
    /\ hstack # <<>> /\ Head(hstack) = "release"
    /\ exit_lock' = "free"
    /\ hstack' = Tail(hstack)
    /\ UNCHANGED <<pc, exit_flag, signals, now, data, new_data, last_update,
                   last_log_time, log_error_msg, log_file, polls, current_urls,
                   after_flag, log_config, debug, render_vars, fetch_vars>>

\* the clock advances
Tock ==
    /\ Running
    /\ now + TimeStep <= StartTime + Horizon
    /\ now' = now + TimeStep
    /\ UNCHANGED <<pc, exit_flag, exit_lock, hstack, signals, data, new_data,
                   last_update, last_log_time, log_error_msg, log_file, polls,
                   current_urls, after_flag, log_config, debug, render_vars, fetch_vars>>

\* line 147: with exit_lock (acquire)
LoopAcquire ==
    /\ LoopAt("top")
    /\ exit_lock = "free"
    /\ exit_lock' = "main"
    /\ pc' = "test"
    /\ UNCHANGED <<exit_flag, hstack, signals, now, data, new_data, last_update,
                   last_log_time, log_error_msg, log_file, polls, current_urls,
                   after_flag, log_config, debug, render_vars, fetch_vars>>

\* lines 148-149: test the flag, leave the with block either way
LoopTest ==
    /\ LoopAt("test")
    /\ pc' = ExitCheck(exit_flag)
    /\ exit_lock' = "free"
    /\ UNCHANGED <<exit_flag, hstack, signals, now, data, new_data, last_update,
                   last_log_time, log_error_msg, log_file, polls, current_urls,
                   after_flag, log_config, debug, render_vars, fetch_vars>>

\* lines 151-153
Getch ==
    /\ LoopAt("getch")
    /\ \E key \in Keys : pc' = AfterGetch(key)
    /\ UNCHANGED <<exit_flag, exit_lock, hstack, signals, now, data, new_data,
                   last_update, last_log_time, log_error_msg, log_file, polls,
                   current_urls, after_flag, log_config, debug, render_vars, fetch_vars>>

\* line 156
FetchCheck ==
    /\ LoopAt("fetch")
    /\ pc' = IF FetchDue(now, last_update, data) THEN "call" ELSE "log"
    /\ UNCHANGED <<exit_flag, exit_lock, hstack, signals, now, data, new_data,
                   last_update, last_log_time, log_error_msg, log_file, polls,
                   current_urls, after_flag, log_config, debug, render_vars, fetch_vars>>

\* lines 157-162: get_weather_data returns
FetchCall ==
    /\ LoopAt("call")
    /\ \E resp \in LoopResponses :
        LET nd == get_weather_data(resp) IN
        /\ new_data' = nd
        /\ data' = NextData(data, nd)
        /\ last_update' = NextLastUpdate(last_update, nd, now)
        /\ polls' = IF nd # None THEN Append(polls, <<now, nd>>) ELSE polls
        /\ current_urls' = IF debug THEN FetchUrls(resp) ELSE current_urls
    /\ after_flag' = IF exit_flag THEN [after_flag EXCEPT !.fetch = Count(@)] ELSE after_flag
    /\ pc' = "log"
    /\ UNCHANGED <<exit_flag, exit_lock, hstack, signals, now, last_log_time,
                   log_error_msg, log_file, log_config, debug, render_vars, fetch_vars>>

LogWanted ==
    /\ log_config # None
    /\ data # None
    /\ LogDue(now, last_log_time, log_config.interval)

\* lines 165-167: nothing to log on this tick
LogSkip ==
    /\ LoopAt("log")
    /\ ~LogWanted
    /\ pc' = "render"
    /\ UNCHANGED <<exit_flag, exit_lock, hstack, signals, now, data, new_data,
                   last_update, last_log_time, log_error_msg, log_file, polls,
                   current_urls, after_flag, log_config, debug, render_vars, fetch_vars>>

\* lines 168-177: the write succeeds (ok) or raises
LogWrite ==
    /\ LoopAt("log")
    /\ LogWanted
    /\ \E ok \in BOOLEAN :
        /\ log_file' = IF ok THEN Append(log_file, LogLine(now, data)) ELSE log_file
        /\ last_log_time' = NextLastLogTime(last_log_time, ok, now)
        /\ log_error_msg' = NextLogError(ok)
    /\ after_flag' = IF exit_flag THEN [after_flag EXCEPT !.log = Count(@)] ELSE after_flag
    /\ pc' = "render"
    /\ UNCHANGED <<exit_flag, exit_lock, hstack, signals, now, data, new_data,
                   last_update, polls, current_urls, log_config, debug, render_vars,
                   fetch_vars>>

\* lines 179-304: an addstr that raises ends main
Render ==
    /\ LoopAt("render")
    /\ \E yx \in TermSizes :
        /\ RenderBody(yx)
        /\ pc' = IF Raised(writes', yx) THEN "crashed" ELSE "top"
    /\ after_flag' = IF exit_flag THEN [after_flag EXCEPT !.render = Count(@)] ELSE after_flag
    /\ UNCHANGED <<exit_flag, exit_lock, hstack, signals, now, data, new_data,
                   last_update, last_log_time, log_error_msg, log_file, polls,
                   current_urls, log_config, debug, fetch_vars>>

Next ==
    \/ Signal \/ HandlerAcquire \/ HandlerSet \/ HandlerRelease
    \/ Tock
    \/ LoopAcquire \/ LoopTest \/ Getch \/ FetchCheck \/ FetchCall
    \/ LogSkip \/ LogWrite \/ Render

Spec == Init /\ [][Next]_vars

(***************************************************************************)
(* get_weather_data on its own: one response in, one return value out.     *)
(***************************************************************************)
Speeds == {k * 1000 : k \in 0..MaxSpeed}
Optional(S) == {Absent} \cup {<<v>> : v \in S}

FetcherResponses ==
    {GeoError, WeatherError}
    \cup {Payload(t, 45, s, g, d, r, Absent) :
            t \in {300000}, s \in Speeds, g \in Optional(Speeds),
            d \in {0, 90, 348}, r \in Optional({2000})}

InitFetcher ==
    /\ InitLoop(None, FALSE)
    /\ InitRender
    /\ weather_data \in FetcherResponses
    /\ result = Unbound

\* lines 50-99
Fetch ==
    /\ result = Unbound
    /\ result' = get_weather_data(weather_data)
    /\ UNCHANGED <<loop_vars, render_vars, weather_data>>

NextFetcher == Fetch

SpecFetcher == InitFetcher /\ [][NextFetcher]_vars

(***************************************************************************)
(* The renderer on its own: any Reading, any terminal size.                *)
(***************************************************************************)
RenderTemps ==
    {-5000, 49900, 50000, 59900, 60000, 69900, 70000, 79900, 80000, 89900,
     90000, 90100, 104000}

RenderReadings ==
    [temp_f : RenderTemps, humidity : {45, 100}, precip_in : {0, 79},
     wind_dir : {"E", "NNW"}, wind_speed_mph : {11185}, wind_gust_mph : {15012}]

RenderSizes == {<<y, x>> : y \in {1, 3, 4, 24}, x \in {1, 12, 30, 80}}

InitRenderer ==
    /\ pc = "render"
    /\ exit_flag = FALSE
    /\ exit_lock = "free"
    /\ hstack = <<>>
    /\ signals = 0
    /\ now = StartTime
    /\ data \in RenderReadings \cup {None}
    /\ new_data = data
    /\ last_update = IF data = None THEN 0 ELSE StartTime
    /\ last_log_time = 0
    /\ log_config \in {None, LogConfig}
    /\ log_error_msg \in (IF log_config # None /\ data # None
                          THEN {None, LogErrorText} ELSE {None})
    /\ log_file = <<>>
    /\ polls = IF data = None THEN <<>> ELSE <<(<<StartTime, data>>)>>
    /\ debug \in BOOLEAN
    /\ current_urls \in (IF debug THEN {<<"geo">>, <<"geo", "weather">>} ELSE {<<>>})
    /\ after_flag = [fetch |-> 0, log |-> 0, render |-> 0]
    /\ InitRender
    /\ InitFetch

\* lines 179-304, and back to the same point of the next tick
RenderOnly ==
    /\ pc = "render"
    /\ \E yx \in RenderSizes : RenderBody(yx)
    /\ UNCHANGED <<loop_vars, fetch_vars>>

NextRenderer == RenderOnly

SpecRenderer == InitRenderer /\ [][NextRenderer]_vars

(***************************************************************************)
(* Properties.                                                             *)
(***************************************************************************)
FetchReturns == pc = "call" /\ pc' = "log"

\* C1: a fetch that fails leaves the current Reading exactly as it was, and
\* the Reading changes only by becoming the result of a successful fetch.
C1_FailedFetchKeepsReading ==
    [][/\ (FetchReturns /\ new_data' = None) => data' = data
       /\ data' # data => (FetchReturns /\ new_data' # None /\ data' = new_data')]_vars

\* a fetch has just failed while an earlier Reading is held
C1_Witness == pc = "log" /\ new_data = None /\ data # None

\* C2: the handler and the loop never block each other: the handler is never
\* waiting for exit_lock while the loop it interrupted holds it.
C2_NoMutualBlock ==
    ~(hstack # <<>> /\ Head(hstack) = "acquire" /\ exit_lock = "main")

\* C3: without a gust field, the Reading's gust equals its wind speed.
C3_GustDefaultsToSpeed ==
    (result \notin {Unbound, None} /\ weather_data.wind.gust = Absent)
        => result.wind_gust_mph = result.wind_speed_mph

LinesIn(w) == {k \in DOMAIN log_file :
                 w <= log_file[k].timestamp /\ log_file[k].timestamp <= w + 90}

PollsIn(w) == {i \in DOMAIN polls : w <= polls[i][1] /\ polls[i][1] <= w + 90}

SpansTwoPolls(w) == \E i, j \in PollsIn(w) : polls[i][2] # polls[j][2]

\* C4 as stated: at a 1-minute interval, a 90-second window that spans two
\* polls with different data holds exactly one log line, written from a
\* Reading polled by then.
C4_ExactlyOneLinePerWindow ==
    (log_config # None /\ log_error_msg = None) =>
        \A w \in StartTime..(now - 90) :
            SpansTwoPolls(w) =>
                /\ Cardinality(LinesIn(w)) = 1
                /\ \A k \in LinesIn(w) :
                     \E i \in DOMAIN polls :
                        /\ polls[i][1] <= log_file[k].timestamp
                        /\ log_file[k] = LogLine(log_file[k].timestamp, polls[i][2])

LogSpaced(f) ==
    \A k \in 1..(Len(f) - 1) : f[k + 1].timestamp - f[k].timestamp >= 60

\* C4 as amended: at a 1-minute interval, log lines are written at least 60
\* seconds apart, so a 90-second window holds at most two of them, and each
\* line is appended alone, with the fields of the Reading current at the write.
C4_LinesSpacedAndCurrent ==
    [][/\ LogSpaced(log_file')
       /\ \A w \in StartTime..now' : Cardinality({k \in DOMAIN log_file' :
               w <= log_file'[k].timestamp /\ log_file'[k].timestamp <= w + 90}) <= 2
       /\ log_file' # log_file =>
            (data # None /\ log_file' = Append(log_file, LogLine(now, data)))]_vars

\* two lines of one 90-second window, the second from a newer Reading
C4_Witness ==
    /\ Len(log_file) >= 2
    /\ log_file[2].timestamp - log_file[1].timestamp <= 90
    /\ log_file[2].temp_f # log_file[1].temp_f

\* C5: every addstr of a render starts at a non-negative row and column and
\* ends within the last row and column, and none raises.
C5_RenderWithinBounds ==
    /\ \A i \in DOMAIN writes :
        /\ writes[i].y >= 0 /\ writes[i].y <= max_yx[1] - 1
        /\ writes[i].x >= 0 /\ writes[i].x + writes[i].len <= max_yx[2]
    /\ ~Raised(writes, max_yx)

\* C6: the fetcher is invoked exactly when no Reading exists or more than 60
\* seconds have passed since the last successful fetch; a success replaces
\* the Reading and sets the fetch timer to the time of that success; a tick
\* that is not a quit tick goes from the key read to the fetch decision.
C6_FetchIffDue ==
    [][/\ (pc = "getch" /\ pc' # "getch") => pc' \in {"fetch", "done"}
       /\ (pc = "fetch" /\ pc' # "fetch") =>
            /\ pc' \in {"call", "log"}
            /\ pc' = "call" <=> (data = None \/ now - last_update > 60)
       /\ (FetchReturns /\ new_data' # None) =>
            (data' = new_data' /\ last_update' = now)
       /\ (pc' = "call" /\ data' # None) => now' - last_update' > 60]_vars

\* a fetch in flight while a Reading is held
C6_Witness == pc = "call" /\ data # None /\ now - last_update > 60

\* C7: a failed log write keeps the message, leaves last_log_time alone and
\* goes on to render; a successful one clears the message and advances
\* last_log_time; the loop ends only at the flag test, the key read or in
\* the renderer.
C7_LogFailureNotFatal ==
    [][/\ (pc = "log" /\ pc' # "log") => pc' = "render"
       /\ (pc = "log" /\ pc' # "log" /\ log_error_msg' # None) =>
            /\ log_error_msg' = LogErrorText
            /\ last_log_time' = last_log_time
       /\ log_file' # log_file =>
            /\ log_error_msg' = None
            /\ last_log_time' = now /\ last_log_time' > last_log_time
       /\ (pc' \in {"done", "crashed"} /\ pc' # pc) => pc \in {"test", "getch", "render"}
       /\ (pc = "render" /\ log_error_msg # None /\ pc' = "crashed") =>
            Raised(Attempted(RenderCalls(data, frame_index, log_config, debug,
                                         current_urls, None, max_yx'[1], max_yx'[2]),
                             max_yx'[1], max_yx'[2]), max_yx')]_vars

\* after a failed write the tick rendered and the next tick is under way
C7_Witness == log_error_msg # None /\ pc = "getch" /\ writes # <<>>

\* C9: the flag is looked at only by the test at the top of a tick: with the
\* flag set, the key read still leads on to the fetch step, the test at the
\* top leads only out of the loop, and no more than one fetch, one log write
\* and one render happen while the flag is set.
C9_FlagSeenAtTopOnly ==
    /\ after_flag.fetch <= 1 /\ after_flag.log <= 1 /\ after_flag.render <= 1
    /\ (exit_flag /\ LoopAt("getch")) => ENABLED (Next /\ pc' = "fetch")
    /\ (exit_flag /\ LoopAt("test")) =>
         (ENABLED (Next /\ pc' = "done") /\ ~ENABLED (Next /\ pc' = "getch"))

\* the flag was set after the test: one fetch, one write, one render, then out
C9_Witness ==
    /\ pc = "done" /\ exit_flag
    /\ after_flag = [fetch |-> 1, log |-> 1, render |-> 1]

\* C10: a failed fetch leaves the fetch timer alone, so while the last fetch
\* is a failed one the fetch condition holds and every fetch decision is to
\* call the fetcher again.
C10_RetryAfterFailure ==
    [][/\ (FetchReturns /\ new_data' = None) => last_update' = last_update
       /\ new_data' = None => (data' = None \/ now' - last_update' > 60)
       /\ (new_data = None /\ pc = "fetch" /\ pc' # "fetch") => pc' = "call"]_vars

\* the fetcher called again right after a failure, with an old Reading held
C10_Witness == pc = "call" /\ new_data = None /\ data # None

\* the six bands as section 4.3 states them: 90 itself falls to the last
StatedBand(t) ==
    IF t > 90000 THEN 1
    ELSE IF 80000 <= t /\ t < 90000 THEN 2
    ELSE IF 70000 <= t /\ t < 80000 THEN 3
    ELSE IF 60000 <= t /\ t < 70000 THEN 4
    ELSE IF 50000 <= t /\ t < 60000 THEN 5
    ELSE 6

\* the same bands with 90 itself in the second
ClosedBand(t) ==
    IF t > 90000 THEN 1
    ELSE IF 80000 <= t /\ t <= 90000 THEN 2
    ELSE IF 70000 <= t /\ t < 80000 THEN 3
    ELSE IF 60000 <= t /\ t < 70000 THEN 4
    ELSE IF 50000 <= t /\ t < 60000 THEN 5
    ELSE 6

\* C8 as stated: the temperature is drawn in the color of its band, with
\* exactly 90 and everything below 50 in color F (pair 6).
C8_BandsAsStated ==
    \A i \in DOMAIN writes :
        writes[i].kind = "temp" => writes[i].attr = StatedBand(data.temp_f)

\* C8 as amended: above 90 is color A, [80,90] is B, [70,80) is C, [60,70)
\* is D, [50,60) is E and everything below 50 is F.
C8_BandsOfCode ==
    \A i \in DOMAIN writes :
        writes[i].kind = "temp" => writes[i].attr = ClosedBand(data.temp_f)

\* exactly 90 degrees was drawn
C8_Witness ==
    \E i \in DOMAIN writes : writes[i].kind = "temp" /\ data.temp_f = 90000

====
